---------------------------- MODULE Spec2Model ----------------------------
(***************************************************************************)
(* A model of the posts router (src/routes/posts.js) of an Express/Mongoose *)
(* REST API.  Every handler is a chain of awaited database operations; the  *)
(* event loop can run any other request between two of them.  The model has *)
(* one action per database operation of a handler: the action also carries  *)
(* the synchronous code that follows the operation, up to the next await or *)
(* the response.  The Post collection is the only shared state.             *)
(*                                                                          *)
(* Not modelled: the title, content, excerpt and tags of a post and the     *)
(* filters and sort orders that read them; request bodies that fail         *)
(* validation; negative limits.                                             *)
(***************************************************************************)
EXTENDS Integers, Sequences, FiniteSets, TLC

(***************************************************************************)
(* Bounds of the model.                                                     *)
(***************************************************************************)
\* Requests a behaviour may start.
MaxReqs == 3
\* Value at which a view counter stops being incremented by new requests.
MaxViews == 3
\* Comments ever created (comment ids are 1..MaxComments).
MaxComments == 2
\* Posts ever created (post ids are 1..MaxPosts).
MaxPosts == 2

(***************************************************************************)
(* Identities.  A caller is the identity its bearer token stands for, or    *)
(* Anonymous when the request carries no token.                             *)
(***************************************************************************)
Users == {"u1", "u2", "adm"}
Anonymous == "anonymous"
Callers == Users \cup {Anonymous}
\* req.user of a request no middleware authenticated (undefined).
NoUser == "undefined"
Role(u) == IF u = "adm" THEN "admin" ELSE "user"

Statuses == {"draft", "published", "archived"}
\* A field a request body or a query string does not carry.
Absent == "absent"

\* Request slots: the requests the server handles at the same time.
Slots == {"r1", "r2"}

PostIds == 1..MaxPosts
Contents == {"c1"}

(***************************************************************************)
(* Routes and their middleware chains.                                      *)
(***************************************************************************)
GET_LIST     == "GET /"
GET_MY       == "GET /my/posts"
GET_ONE      == "GET /:id"
POST_CREATE  == "POST /"
PUT_UPDATE   == "PUT /:id"
DELETE_POST  == "DELETE /:id"
PUT_LIKE     == "PUT /:id/like"
POST_COMMENT == "POST /:id/comments"
DEL_COMMENT  == "DELETE /:id/comments/:commentId"
GET_CATEGORY == "GET /category/:category"

\* The routes declared with the protect middleware.
Protected == {GET_MY, POST_CREATE, PUT_UPDATE, DELETE_POST, PUT_LIKE,
              POST_COMMENT, DEL_COMMENT}

\* protect: a request without a valid token is answered 401 before the handler.
ProtectRejects(route, caller) == route \in Protected /\ caller = Anonymous

\* req.user as the handler of a route sees it: set by protect and by nothing else.
ReqUser(route, caller) ==
  IF route \in Protected /\ caller # Anonymous THEN caller ELSE NoUser

(***************************************************************************)
(* State.                                                                   *)
(***************************************************************************)
VARIABLES
  db,        \* the Post collection: post id -> stored document
  reqs,      \* slot -> the request it handles and how far the handler got
  started,   \* requests started so far
  nextCid,   \* next comment id (a fresh _id per embedded comment)
  nextPid,   \* next post id (a fresh _id per created post)
  created,   \* history: post id -> identity that issued the POST / creating it
  ok200,     \* history: post id -> number of GET /:id answered 200
  likeCur,   \* history: post id -> the like toggle running alone on the post
  likePrev   \* history: post id -> the last like toggle that ran alone

vars == <<db, reqs, started, nextCid, nextPid, created, ok200, likeCur, likePrev>>

(***************************************************************************)
(* Documents, requests and responses.                                       *)
(***************************************************************************)
\* Post.create: the schema's defaults for what the body does not set.
NewPost(author, status, category) ==
  [author |-> author, status |-> status, category |-> category,
   viewCount |-> 0, likes |-> <<>>, comments |-> <<>>]

NoResp == [status |-> 0]
\* read: the document findById returned; doc: the in-memory document.
IdleReq == [route |-> "none", caller |-> Anonymous, id |-> 0, pc |-> "idle",
            read |-> <<>>, doc |-> <<>>, arg |-> <<>>, resp |-> NoResp]

\* A slot takes a new request when it handles none, within the bound.
CanStart(s) == reqs[s].pc \in {"idle", "done"} /\ started < MaxReqs

\* The request is answered at once: the handler is over.
Respond(s, route, caller, id, resp) ==
  reqs' = [reqs EXCEPT ![s] = [route |-> route, caller |-> caller, id |-> id,
                              pc |-> "done", read |-> <<>>, doc |-> <<>>,
                              arg |-> <<>>, resp |-> resp]]

\* The handler awaits its next database operation pc, holding document doc.
Await(s, route, caller, id, arg, pc, read, doc) ==
  reqs' = [reqs EXCEPT ![s] = [route |-> route, caller |-> caller, id |-> id,
                              pc |-> pc, read |-> read, doc |-> doc,
                              arg |-> arg, resp |-> NoResp]]

\* The handler's last operation is over: it answers.
Finish(s, resp) ==
  reqs' = [reqs EXCEPT ![s].pc = "done", ![s].read = <<>>, ![s].doc = <<>>,
                       ![s].arg = <<>>, ![s].resp = resp]

Unauthenticated ==
  [status |-> 401, success |-> FALSE, message |-> "Not authorized to access this route"]
PostNotFound == [status |-> 404, success |-> FALSE, message |-> "Post not found"]
\* next(error): the answer of the error handler.
ServerError == [status |-> 500, success |-> FALSE, message |-> "Server Error"]

(***************************************************************************)
(* The ODM.  findById reads the stored document; save persists the whole    *)
(* in-memory document over the stored one (last writer wins).  Saving a     *)
(* document that was deleted in the meantime stores nothing and fails.      *)
(***************************************************************************)
Exists(id) == id \in DOMAIN db
Save(id, post) == [db EXCEPT ![id] = post]

NoLike == [slot |-> "none"]

\* History: a database operation on post id that is no like toggle running alone.
OtherOp(id) ==
  /\ likeCur' = [p \in PostIds |-> IF p = id THEN NoLike ELSE likeCur[p]]
  /\ likePrev' = [p \in PostIds |-> IF p = id THEN NoLike ELSE likePrev[p]]

(***************************************************************************)
(* GET /:id                                                                 *)
(***************************************************************************)
\* Line 172: the post is hidden from this req.user.
Hidden(post, user) ==
  post.status # "published" /\ (user = NoUser \/ user # post.author)

GetPost(s, caller, id) ==
  /\ CanStart(s)
  /\ started' = started + 1
  /\ LET user == ReqUser(GET_ONE, caller) IN
       IF ~Exists(id) THEN
         /\ Respond(s, GET_ONE, caller, id, PostNotFound)
         /\ UNCHANGED <<likeCur, likePrev>>
       ELSE IF Hidden(db[id], user) THEN
         /\ Respond(s, GET_ONE, caller, id, PostNotFound)
         /\ OtherOp(id)
       ELSE
         /\ db[id].viewCount < MaxViews
         /\ Await(s, GET_ONE, caller, id, <<>>, "save", <<db[id]>>,
                  <<[db[id] EXCEPT !.viewCount = @ + 1]>>)
         /\ OtherOp(id)
  /\ UNCHANGED <<db, nextCid, nextPid, created, ok200>>

GetPostSave(s) ==
  /\ reqs[s].route = GET_ONE /\ reqs[s].pc = "save"
  /\ LET id == reqs[s].id
         post == reqs[s].doc[1]
     IN IF Exists(id) THEN
          /\ db' = Save(id, post)
          /\ Finish(s, [status |-> 200, success |-> TRUE, post |-> post])
          /\ ok200' = [ok200 EXCEPT ![id] = @ + 1]
          /\ OtherOp(id)
        ELSE
          /\ Finish(s, ServerError)
          /\ UNCHANGED <<db, ok200, likeCur, likePrev>>
  /\ UNCHANGED <<started, nextCid, nextPid, created>>

(***************************************************************************)
(* PUT /:id/like                                                            *)
(***************************************************************************)
\* Array.prototype.findIndex on the like list, 1-based; 0 stands for -1.
RECURSIVE FindIndexFrom(_, _, _)
FindIndexFrom(likes, user, i) ==
  IF i > Len(likes) THEN 0
  ELSE IF likes[i] = user THEN i
  ELSE FindIndexFrom(likes, user, i + 1)

LikeIndex(likes, user) == FindIndexFrom(likes, user, 1)

\* splice(i, 1): the sequence without its i-th element.
Splice(seq, i) == [k \in 1..(Len(seq) - 1) |-> IF k < i THEN seq[k] ELSE seq[k + 1]]

\* ToggleLike without the lookup before the insert.
ToggleLikeNoLookup(likes, user) == <<user>> \o likes
\* ToggleLike removing the last entry instead of the one found.
ToggleLikeLast(likes, user) ==
  IF LikeIndex(likes, user) > 0 THEN Splice(likes, Len(likes)) ELSE <<user>> \o likes

\* Lines 300-316: the like list after the toggle by user.
ToggleLike(likes, user) ==
  IF LikeIndex(likes, user) > 0
    THEN Splice(likes, LikeIndex(likes, user))
    ELSE <<user>> \o likes

LikePost(s, caller, id) ==
  /\ CanStart(s)
  /\ started' = started + 1
  /\ IF ProtectRejects(PUT_LIKE, caller) THEN
       /\ Respond(s, PUT_LIKE, caller, id, Unauthenticated)
       /\ UNCHANGED <<likeCur, likePrev>>
     ELSE IF ~Exists(id) THEN
       /\ Respond(s, PUT_LIKE, caller, id, PostNotFound)
       /\ UNCHANGED <<likeCur, likePrev>>
     ELSE
       LET user == ReqUser(PUT_LIKE, caller)
           post == db[id]
       IN /\ Await(s, PUT_LIKE, caller, id,
                   [liked |-> LikeIndex(post.likes, user) = 0], "save", <<post>>,
                   <<[post EXCEPT !.likes = ToggleLike(post.likes, user)]>>)
          \* History: the toggle runs alone unless another one is under way.
          /\ IF likeCur[id] = NoLike
               THEN /\ likeCur' = [likeCur EXCEPT ![id] = [slot |-> s]]
                    /\ UNCHANGED likePrev
               ELSE OtherOp(id)
  /\ UNCHANGED <<db, nextCid, nextPid, created, ok200>>

\* LikePostSave toggling the like in the stored document instead of storing
\* the document the handler holds.
LikePostSaveMerge(s) ==
  /\ reqs[s].route = PUT_LIKE /\ reqs[s].pc = "save"
  /\ LET id    == reqs[s].id
         user  == ReqUser(PUT_LIKE, reqs[s].caller)
         liked == reqs[s].arg.liked
     IN IF Exists(id) THEN
          /\ db' = Save(id, [db[id] EXCEPT !.likes = ToggleLike(@, user)])
          /\ Finish(s, [status |-> 200, success |-> TRUE, liked |-> liked,
                        likeCount |-> Len(db'[id].likes)])
          /\ likeCur' = [likeCur EXCEPT ![id] = NoLike]
          /\ likePrev' = [likePrev EXCEPT ![id] = NoLike]
        ELSE
          /\ Finish(s, ServerError)
          /\ UNCHANGED <<db, likeCur, likePrev>>
  /\ UNCHANGED <<started, nextCid, nextPid, created, ok200>>

\* Lines 305-327: the document the handler holds is saved and the toggle answered.
LikePostSave(s) ==
  /\ reqs[s].route = PUT_LIKE /\ reqs[s].pc = "save"
  /\ LET id    == reqs[s].id
         user  == ReqUser(PUT_LIKE, reqs[s].caller)
         post  == reqs[s].doc[1]
         liked == reqs[s].arg.liked
     IN IF Exists(id) THEN
          /\ db' = Save(id, post)
          /\ Finish(s, [status |-> 200, success |-> TRUE, liked |-> liked,
                        likeCount |-> Len(post.likes)])
          /\ likeCur' = [likeCur EXCEPT ![id] = NoLike]
          /\ likePrev' = [likePrev EXCEPT ![id] =
               IF likeCur[id] # NoLike /\ likeCur[id].slot = s
                 THEN [slot |-> "prev", user |-> user,
                       before |-> reqs[s].read[1].likes, liked |-> liked,
                       second |-> (likePrev[id] # NoLike /\ likePrev[id].user = user)]
                 ELSE NoLike]
        ELSE
          /\ Finish(s, ServerError)
          /\ UNCHANGED <<db, likeCur, likePrev>>
  /\ UNCHANGED <<started, nextCid, nextPid, created, ok200>>

(***************************************************************************)
(* POST /, PUT /:id, DELETE /:id                                            *)
(***************************************************************************)
Categories == {"Tech", "art"}

\* The validated bodies of POST / and PUT /:id: the fields validatePost checks
\* may be there or not, and so may an author field, which it does not remove.
Bodies == [author : Users \cup {Absent},
           status : Statuses \cup {Absent},
           category : Categories \cup {Absent}]

\* The bodies the specification of post creation, update and deletion draws.
PostBodies == {b \in Bodies : b.category = Absent /\ b.status \in {Absent, "published"}}
OwnerBodies == {b \in Bodies : b.category = Absent /\ b.status = "draft" /\ b.author \in {Absent, "u2"}}

\* The bodies the specification of listings draws: they move posts in and out
\* of the filters.
ListBodies == {b \in Bodies : b.author = Absent /\ b.status \in {"draft", "published"}
                                /\ b.category = Absent}

\* Lines 198-200: the document Post.create stores for a body.  The schema
\* gives viewCount a default and status none.
CreatedPost(user, body) ==
  LET forced == [body EXCEPT !.author = user]
  IN NewPost(forced.author, forced.status, forced.category)

\* Line 237: findByIdAndUpdate sets the fields the body carries.
ApplyBody(post, body) ==
  [post EXCEPT !.author = IF body.author = Absent THEN @ ELSE body.author,
               !.status = IF body.status = Absent THEN @ ELSE body.status,
               !.category = IF body.category = Absent THEN @ ELSE body.category]

\* NotAuthorized without the admin role.
NotAuthorizedOwnerOnly(post, user) == post.author # user

\* Lines 230 and 267: the caller is neither the owner of the post nor an admin.
NotAuthorized(post, user) == post.author # user /\ Role(user) # "admin"

UpdateForbidden ==
  [status |-> 401, success |-> FALSE, message |-> "Not authorized to update this post"]
DeleteForbidden ==
  [status |-> 401, success |-> FALSE, message |-> "Not authorized to delete this post"]

CreatePost(s, caller, body) ==
  /\ CanStart(s)
  /\ started' = started + 1
  /\ IF ProtectRejects(POST_CREATE, caller) THEN
       /\ Respond(s, POST_CREATE, caller, 0, Unauthenticated)
       /\ UNCHANGED <<db, nextPid, created>>
     ELSE
       /\ nextPid <= MaxPosts
       /\ db' = db @@ (nextPid :> CreatedPost(ReqUser(POST_CREATE, caller), body))
       /\ created' = created @@ (nextPid :> caller)
       /\ nextPid' = nextPid + 1
       /\ Await(s, POST_CREATE, caller, nextPid, body, "fetch", <<>>, <<>>)
  /\ UNCHANGED <<nextCid, ok200, likeCur, likePrev>>

\* Line 202: the created post is read again for the response.
CreatePostFetch(s) ==
  /\ reqs[s].route = POST_CREATE /\ reqs[s].pc = "fetch"
  /\ LET id == reqs[s].id IN
       /\ Finish(s, [status |-> 201, success |-> TRUE,
                     post |-> IF Exists(id) THEN <<db[id]>> ELSE <<>>])
       /\ IF Exists(id) THEN OtherOp(id) ELSE UNCHANGED <<likeCur, likePrev>>
  /\ UNCHANGED <<db, started, nextCid, nextPid, created, ok200>>

UpdatePost(s, caller, id, body) ==
  /\ CanStart(s)
  /\ started' = started + 1
  /\ IF ProtectRejects(PUT_UPDATE, caller) THEN
       /\ Respond(s, PUT_UPDATE, caller, id, Unauthenticated)
       /\ UNCHANGED <<likeCur, likePrev>>
     ELSE IF ~Exists(id) THEN
       /\ Respond(s, PUT_UPDATE, caller, id, PostNotFound)
       /\ UNCHANGED <<likeCur, likePrev>>
     ELSE IF NotAuthorized(db[id], ReqUser(PUT_UPDATE, caller)) THEN
       /\ Respond(s, PUT_UPDATE, caller, id, UpdateForbidden)
       /\ OtherOp(id)
     ELSE
       /\ Await(s, PUT_UPDATE, caller, id, body, "update", <<db[id]>>, <<db[id]>>)
       /\ OtherOp(id)
  /\ UNCHANGED <<db, nextCid, nextPid, created, ok200>>

\* Line 237: findByIdAndUpdate works on the stored document, in one operation.
UpdatePostApply(s) ==
  /\ reqs[s].route = PUT_UPDATE /\ reqs[s].pc = "update"
  /\ LET id == reqs[s].id IN
       IF Exists(id) THEN
         /\ db' = Save(id, ApplyBody(db[id], reqs[s].arg))
         /\ Finish(s, [status |-> 200, success |-> TRUE,
                       post |-> <<ApplyBody(db[id], reqs[s].arg)>>])
         /\ OtherOp(id)
       ELSE
         /\ Finish(s, [status |-> 200, success |-> TRUE, post |-> <<>>])
         /\ UNCHANGED <<db, likeCur, likePrev>>
  /\ UNCHANGED <<started, nextCid, nextPid, created, ok200>>

DeletePost(s, caller, id) ==
  /\ CanStart(s)
  /\ started' = started + 1
  /\ IF ProtectRejects(DELETE_POST, caller) THEN
       /\ Respond(s, DELETE_POST, caller, id, Unauthenticated)
       /\ UNCHANGED <<likeCur, likePrev>>
     ELSE IF ~Exists(id) THEN
       /\ Respond(s, DELETE_POST, caller, id, PostNotFound)
       /\ UNCHANGED <<likeCur, likePrev>>
     ELSE IF NotAuthorized(db[id], ReqUser(DELETE_POST, caller)) THEN
       /\ Respond(s, DELETE_POST, caller, id, DeleteForbidden)
       /\ OtherOp(id)
     ELSE
       /\ Await(s, DELETE_POST, caller, id, <<>>, "delete", <<db[id]>>, <<db[id]>>)
       /\ OtherOp(id)
  /\ UNCHANGED <<db, nextCid, nextPid, created, ok200>>

\* Line 274: findByIdAndDelete.
DeletePostApply(s) ==
  /\ reqs[s].route = DELETE_POST /\ reqs[s].pc = "delete"
  /\ LET id == reqs[s].id IN
       /\ db' = [p \in DOMAIN db \ {id} |-> db[p]]
       /\ Finish(s, [status |-> 200, success |-> TRUE,
                     message |-> "Post deleted successfully"])
       /\ OtherOp(id)
  /\ UNCHANGED <<started, nextCid, nextPid, created, ok200>>

(***************************************************************************)
(* POST /:id/comments, DELETE /:id/comments/:commentId                      *)
(***************************************************************************)
CommentIds == 1..MaxComments

\* findIndex by comment _id, 1-based; 0 stands for -1.
RECURSIVE CommentIndexFrom(_, _, _)
CommentIndexFrom(comments, cid, i) ==
  IF i > Len(comments) THEN 0
  ELSE IF comments[i].id = cid THEN i
  ELSE CommentIndexFrom(comments, cid, i + 1)

CommentIndex(comments, cid) == CommentIndexFrom(comments, cid, 1)

\* RemoveComment removing the first comment instead of the one found.
RemoveCommentFirst(comments, cid) == Splice(comments, 1)

\* Lines 400-401: the comment list without the comment found.
RemoveComment(comments, cid) == Splice(comments, CommentIndex(comments, cid))

\* Lines 390-392: the caller is neither the comment's author, nor the post's
\* author, nor an admin.
CommentForbidden(comment, post, user) ==
  comment.user # user /\ post.author # user /\ Role(user) # "admin"

CommentNotFound == [status |-> 404, success |-> FALSE, message |-> "Comment not found"]
CommentDeleteForbidden ==
  [status |-> 401, success |-> FALSE, message |-> "Not authorized to delete this comment"]

AddComment(s, caller, id, content) ==
  /\ CanStart(s)
  /\ started' = started + 1
  /\ IF ProtectRejects(POST_COMMENT, caller) THEN
       /\ Respond(s, POST_COMMENT, caller, id, Unauthenticated)
       /\ UNCHANGED <<nextCid, likeCur, likePrev>>
     ELSE IF ~Exists(id) THEN
       /\ Respond(s, POST_COMMENT, caller, id, PostNotFound)
       /\ UNCHANGED <<nextCid, likeCur, likePrev>>
     ELSE
       LET newComment == [id |-> nextCid, user |-> ReqUser(POST_COMMENT, caller),
                          content |-> content]
       IN /\ nextCid <= MaxComments
          /\ nextCid' = nextCid + 1
          /\ Await(s, POST_COMMENT, caller, id, newComment, "save", <<db[id]>>,
                   <<[db[id] EXCEPT !.comments = <<newComment>> \o @]>>)
          /\ OtherOp(id)
  /\ UNCHANGED <<db, nextPid, created, ok200>>

AddCommentSave(s) ==
  /\ reqs[s].route = POST_COMMENT /\ reqs[s].pc = "save"
  /\ LET id == reqs[s].id IN
       IF Exists(id) THEN
         /\ db' = Save(id, reqs[s].doc[1])
         /\ reqs' = [reqs EXCEPT ![s].pc = "fetch", ![s].read = <<>>, ![s].doc = <<>>]
         /\ OtherOp(id)
       ELSE
         /\ Finish(s, ServerError)
         /\ UNCHANGED <<db, likeCur, likePrev>>
  /\ UNCHANGED <<started, nextCid, nextPid, created, ok200>>

\* Lines 352-358: the post is read again and its first comment is returned;
\* reading comments of a post that is gone throws.
AddCommentFetch(s) ==
  /\ reqs[s].route = POST_COMMENT /\ reqs[s].pc = "fetch"
  /\ LET id == reqs[s].id IN
       IF Exists(id) THEN
         /\ Finish(s, [status |-> 201, success |-> TRUE,
                       comment |-> IF Len(db[id].comments) > 0
                                     THEN <<db[id].comments[1]>> ELSE <<>>])
         /\ OtherOp(id)
       ELSE
         /\ Finish(s, ServerError)
         /\ UNCHANGED <<likeCur, likePrev>>
  /\ UNCHANGED <<db, started, nextCid, nextPid, created, ok200>>

DeleteComment(s, caller, id, cid) ==
  /\ CanStart(s)
  /\ started' = started + 1
  /\ IF ProtectRejects(DEL_COMMENT, caller) THEN
       /\ Respond(s, DEL_COMMENT, caller, id, Unauthenticated)
       /\ UNCHANGED <<likeCur, likePrev>>
     ELSE IF ~Exists(id) THEN
       /\ Respond(s, DEL_COMMENT, caller, id, PostNotFound)
       /\ UNCHANGED <<likeCur, likePrev>>
     ELSE
       LET post == db[id]
           i == CommentIndex(post.comments, cid)
       IN /\ OtherOp(id)
          /\ IF i = 0 THEN
               Respond(s, DEL_COMMENT, caller, id, CommentNotFound)
             ELSE IF CommentForbidden(post.comments[i], post, ReqUser(DEL_COMMENT, caller)) THEN
               Respond(s, DEL_COMMENT, caller, id, CommentDeleteForbidden)
             ELSE
               Await(s, DEL_COMMENT, caller, id, cid, "save", <<post>>,
                     <<[post EXCEPT !.comments = RemoveComment(@, cid)]>>)
  /\ UNCHANGED <<db, nextCid, nextPid, created, ok200>>

DeleteCommentSave(s) ==
  /\ reqs[s].route = DEL_COMMENT /\ reqs[s].pc = "save"
  /\ LET id == reqs[s].id IN
       IF Exists(id) THEN
         /\ db' = Save(id, reqs[s].doc[1])
         /\ Finish(s, [status |-> 200, success |-> TRUE,
                       message |-> "Comment deleted successfully"])
         /\ OtherOp(id)
       ELSE
         /\ Finish(s, ServerError)
         /\ UNCHANGED <<db, likeCur, likePrev>>
  /\ UNCHANGED <<started, nextCid, nextPid, created, ok200>>

(***************************************************************************)
(* GET /, GET /my/posts, GET /category/:category                            *)
(***************************************************************************)
\* The characters of the strings that are parsed or matched.
Chars(str) ==
  CASE str = "Tech" -> <<"T", "e", "c", "h">>
    [] str = "art"  -> <<"a", "r", "t">>
    [] str = "te"   -> <<"t", "e">>
    [] str = "T"    -> <<"T">>
    [] str = "abc"  -> <<"a", "b", "c">>
    [] str = "0"    -> <<"0">>
    [] str = "1"    -> <<"1">>
    [] str = "2"    -> <<"2">>
    [] str = "3"    -> <<"3">>
    [] str = "2x"   -> <<"2", "x">>
    [] str = "-1"   -> <<"-", "1">>

Digits == {"0", "1", "2", "3", "4", "5", "6", "7", "8", "9"}
DigitValue(c) ==
  CASE c = "0" -> 0 [] c = "1" -> 1 [] c = "2" -> 2 [] c = "3" -> 3 [] c = "4" -> 4
    [] c = "5" -> 5 [] c = "6" -> 6 [] c = "7" -> 7 [] c = "8" -> 8 [] c = "9" -> 9

\* The length of the longest prefix of digits.
RECURSIVE DigitPrefix(_)
DigitPrefix(cs) ==
  IF cs = <<>> \/ Head(cs) \notin Digits THEN 0 ELSE 1 + DigitPrefix(Tail(cs))

RECURSIVE Decimal(_)
Decimal(cs) ==
  IF cs = <<>> THEN 0 ELSE 10 * Decimal(SubSeq(cs, 1, Len(cs) - 1)) + DigitValue(cs[Len(cs)])

\* parseInt(str, 10): an optional sign and the longest prefix of digits;
\* <<>> stands for NaN (no digit, or no parameter at all).
ParseInt(str) ==
  IF str = Absent THEN <<>>
  ELSE LET cs     == Chars(str)
           signed == cs # <<>> /\ Head(cs) \in {"-", "+"}
           body   == IF signed THEN Tail(cs) ELSE cs
           n      == DigitPrefix(body)
       IN IF n = 0 THEN <<>>
          ELSE IF signed /\ Head(cs) = "-" THEN <<0 - Decimal(SubSeq(body, 1, n))>>
          ELSE <<Decimal(SubSeq(body, 1, n))>>

DefaultPage == 1
DefaultLimit == 10

\* parseInt(...) || default: NaN and 0 are falsy.
OrDefault(parsed, default) ==
  IF parsed = <<>> \/ parsed[1] = 0 THEN default ELSE parsed[1]

Lower(c) == CASE c = "T" -> "t" [] OTHER -> c

\* { $regex: pattern, $options: 'i' } for a pattern of letters: the value has
\* the pattern as a substring, whatever the case.
RegexMatchI(pattern, value) ==
  LET p == Chars(pattern)
      v == Chars(value)
  IN \E i \in 0..(Len(v) - Len(p)) :
       \A k \in 1..Len(p) : Lower(v[i + k]) = Lower(p[k])

ListRoutes == {GET_LIST, GET_MY, GET_CATEGORY}

\* Lines 19-43, 111-116, 422-425: the filter of a listing.  For
\* GET /category/:category the pattern is the path parameter.
QueryOf(route, user, q) ==
  CASE route = GET_LIST ->
         [status |-> "published", category |-> q.category, author |-> q.author]
    [] route = GET_MY ->
         [status |-> q.status, category |-> Absent, author |-> user]
    [] route = GET_CATEGORY ->
         [status |-> "published", category |-> q.category, author |-> Absent]

Matches(post, query) ==
  /\ query.status = Absent \/ post.status = query.status
  /\ query.author = Absent \/ post.author = query.author
  /\ \/ query.category = Absent
     \/ post.category # Absent /\ RegexMatchI(query.category, post.category)

\* The ids of the stored posts the filter matches.
Matching(query) == {p \in DOMAIN db : Matches(db[p], query)}

\* sort by createdAt: post ids grow with the time of creation.
RECURSIVE Ascending(_)
Ascending(ids) ==
  IF ids = {} THEN <<>>
  ELSE LET m == CHOOSE x \in ids : \A y \in ids : x <= y
       IN <<m>> \o Ascending(ids \ {m})

Reverse(seq) == [i \in 1..Len(seq) |-> seq[Len(seq) + 1 - i]]

\* Lines 46-62: newest first unless sortBy is 'oldest'.
Sorted(ids, sortBy) ==
  IF sortBy = "oldest" THEN Ascending(ids) ELSE Reverse(Ascending(ids))

Min(a, b) == IF a <= b THEN a ELSE b
Max(a, b) == IF a >= b THEN a ELSE b

\* PageOf without the skip.
PageOfNoSkip(sorted, startIndex, limit) == SubSeq(sorted, 1, Min(limit, Len(sorted)))

\* .limit(limit).skip(startIndex), for startIndex >= 0 and limit >= 1.
PageOf(sorted, startIndex, limit) ==
  SubSeq(sorted, startIndex + 1, Min(startIndex + limit, Len(sorted)))

\* Pagination with <= for <.
PaginationOffByOne(page, limit, startIndex, total) ==
  [next |-> IF startIndex + limit <= total
              THEN <<[page |-> page + 1, limit |-> limit]>> ELSE <<>>,
   prev |-> IF startIndex > 0
              THEN <<[page |-> page - 1, limit |-> limit]>> ELSE <<>>]

\* Lines 73-87: the pagination descriptor; <<>> stands for a key left out.
Pagination(page, limit, startIndex, total) ==
  [next |-> IF startIndex + limit < total
              THEN <<[page |-> page + 1, limit |-> limit]>> ELSE <<>>,
   prev |-> IF startIndex > 0
              THEN <<[page |-> page - 1, limit |-> limit]>> ELSE <<>>]

\* The query strings of listing requests: page and limit absent, non-numeric,
\* 0, numeric, numeric with a tail, negative; the filters of each route.
Paging ==
  {<<Absent, Absent>>, <<"abc", "abc">>, <<"0", "0">>, <<"1", "1">>, <<"2", "1">>,
   <<"2x", "1">>, <<"2", Absent>>, <<"-1", "1">>}
Filters(route) ==
  CASE route = GET_LIST ->
         {[category |-> Absent, author |-> Absent, status |-> Absent, sortBy |-> Absent],
          [category |-> "T", author |-> Absent, status |-> Absent, sortBy |-> Absent],
          [category |-> Absent, author |-> "u1", status |-> Absent, sortBy |-> "oldest"]}
    [] route = GET_MY ->
         {[category |-> Absent, author |-> Absent, status |-> st, sortBy |-> Absent] :
            st \in {Absent, "draft"}}
    [] route = GET_CATEGORY ->
         {[category |-> c, author |-> Absent, status |-> Absent, sortBy |-> Absent] :
            c \in {"te", "art"}}
ListQueries(route) ==
  {[page |-> pl[1], limit |-> pl[2], category |-> f.category, author |-> f.author,
    status |-> f.status, sortBy |-> f.sortBy] : pl \in Paging, f \in Filters(route)}

\* The callers of listing requests: the handlers of the two public routes
\* never read the identity.
ListCallers(route) == IF route = GET_MY THEN {Anonymous, "u1", "u2"} ELSE {Anonymous}

\* Lines 14-16 and 64: the parameters are parsed and the matching posts counted.
ListPosts(s, route, caller, q) ==
  /\ CanStart(s)
  /\ started' = started + 1
  /\ IF ProtectRejects(route, caller) THEN
       Respond(s, route, caller, 0, Unauthenticated)
     ELSE
       LET page  == OrDefault(ParseInt(q.page), DefaultPage)
           limit == OrDefault(ParseInt(q.limit), DefaultLimit)
           query == QueryOf(route, ReqUser(route, caller), q)
       IN Await(s, route, caller, 0,
                [page |-> page, limit |-> limit, startIndex |-> (page - 1) * limit,
                 query |-> query, sortBy |-> q.sortBy, q |-> q,
                 total |-> Cardinality(Matching(query))],
                "find", <<>>, <<>>)
  /\ UNCHANGED <<db, nextCid, nextPid, created, ok200, likeCur, likePrev>>

\* Lines 65-95: the page is read and the response built.  The store rejects a
\* negative skip.
ListFind(s) ==
  /\ reqs[s].route \in ListRoutes /\ reqs[s].pc = "find"
  /\ LET a == reqs[s].arg IN
       IF a.startIndex < 0 THEN Finish(s, ServerError)
       ELSE LET posts == PageOf(Sorted(Matching(a.query), a.sortBy), a.startIndex, a.limit)
            IN Finish(s, [status |-> 200, success |-> TRUE, count |-> Len(posts),
                          total |-> a.total,
                          pagination |-> Pagination(a.page, a.limit, a.startIndex, a.total),
                          posts |-> posts])
  /\ UNCHANGED <<db, started, nextCid, nextPid, created, ok200, likeCur, likePrev>>

(***************************************************************************)
(* Initial states and specifications.  InitEmpty is the server after        *)
(* construction; the other initial states are collections the API produces  *)
(* through POST /.                                                          *)
(***************************************************************************)
InitRest ==
  /\ reqs = [s \in Slots |-> IdleReq]
  /\ started = 0
  /\ nextCid = 1
  /\ ok200 = [p \in PostIds |-> 0]
  /\ likeCur = [p \in PostIds |-> NoLike]
  /\ likePrev = [p \in PostIds |-> NoLike]

InitEmpty ==
  /\ db = <<>>
  /\ created = <<>>
  /\ nextPid = 1
  /\ InitRest

\* One post, created by any user with any status.
InitView ==
  /\ \E a \in Users, st \in Statuses :
       /\ db = (1 :> NewPost(a, st, Absent))
       /\ created = (1 :> a)
  /\ nextPid = 2
  /\ InitRest

\* One published post, created by any user.
InitOne ==
  /\ \E a \in Users :
       /\ db = (1 :> NewPost(a, "published", Absent))
       /\ created = (1 :> a)
  /\ nextPid = 2
  /\ InitRest

\* Single-post fetches.
NextView ==
  \E s \in Slots :
    \/ \E caller \in Callers, id \in PostIds : GetPost(s, caller, id)
    \/ GetPostSave(s)

SpecView == InitView /\ [][NextView]_vars

\* Like toggles.
NextLike ==
  \E s \in Slots :
    \/ \E caller \in Callers, id \in PostIds : LikePost(s, caller, id)
    \/ LikePostSave(s)

SpecLike == InitOne /\ [][NextLike]_vars

\* Creation, update and deletion of posts.
NextPost ==
  \E s \in Slots :
    \/ \E caller \in Callers, body \in PostBodies : CreatePost(s, caller, body)
    \/ CreatePostFetch(s)
    \/ \E caller \in Callers, id \in PostIds, body \in PostBodies :
         UpdatePost(s, caller, id, body)
    \/ UpdatePostApply(s)
    \/ \E caller \in Callers, id \in PostIds : DeletePost(s, caller, id)
    \/ DeletePostApply(s)

SpecPost == InitEmpty /\ [][NextPost]_vars

\* Update and deletion of an existing post.
NextOwner ==
  \E s \in Slots :
    \/ \E caller \in Callers, id \in PostIds, body \in OwnerBodies :
         UpdatePost(s, caller, id, body)
    \/ UpdatePostApply(s)
    \/ \E caller \in Callers, id \in PostIds : DeletePost(s, caller, id)
    \/ DeletePostApply(s)

SpecOwner == InitOne /\ [][NextOwner]_vars

\* Comments of an existing post.
NextComment ==
  \E s \in Slots :
    \/ \E caller \in Callers, id \in PostIds, content \in Contents :
         AddComment(s, caller, id, content)
    \/ AddCommentSave(s)
    \/ AddCommentFetch(s)
    \/ \E caller \in Callers, id \in PostIds, cid \in CommentIds :
         DeleteComment(s, caller, id, cid)
    \/ DeleteCommentSave(s)

\* One published post of u1: u2 is another user and adm the admin.
InitComment ==
  /\ db = (1 :> NewPost("u1", "published", Absent))
  /\ created = (1 :> "u1")
  /\ nextPid = 2
  /\ InitRest

SpecComment == InitComment /\ [][NextComment]_vars


\* MaxPosts published posts of u1 in category Tech.
InitList ==
  /\ db = [p \in PostIds |-> NewPost("u1", "published", "Tech")]
  /\ created = [p \in PostIds |-> "u1"]
  /\ nextPid = MaxPosts + 1
  /\ InitRest

\* Listings in one slot, with updates and deletions of the posts listed by
\* their author in the other: listings only read, so that two of them do not
\* affect each other.
NextList ==
  \/ \E route \in ListRoutes :
       \E caller \in ListCallers(route), q \in ListQueries(route) :
         ListPosts("r1", route, caller, q)
  \/ ListFind("r1")
  \/ \E id \in PostIds, body \in ListBodies : UpdatePost("r2", "u1", id, body)
  \/ UpdatePostApply("r2")
  \/ \E id \in PostIds : DeletePost("r2", "u1", id)
  \/ DeletePostApply("r2")

SpecList == InitList /\ [][NextList]_vars


\* One published post of the admin with a comment of u1 and, added after it, a
\* comment of u2: each user may delete the own comment only.
InitRace ==
  /\ db = (1 :> [NewPost("adm", "published", Absent) EXCEPT
                   !.comments = <<[id |-> 2, user |-> "u2", content |-> "c1"],
                                  [id |-> 1, user |-> "u1", content |-> "c1"]>>])
  /\ created = (1 :> "adm")
  /\ nextPid = 2
  /\ reqs = [s \in Slots |-> IdleReq]
  /\ started = 0
  /\ nextCid = 3
  /\ ok200 = [p \in PostIds |-> 0]
  /\ likeCur = [p \in PostIds |-> NoLike]
  /\ likePrev = [p \in PostIds |-> NoLike]

\* Like toggles and comment deletions on the same post.
NextRace ==
  \E s \in Slots :
    \/ \E caller \in Users, id \in PostIds : LikePost(s, caller, id)
    \/ LikePostSave(s)
    \/ \E caller \in Users, id \in PostIds, cid \in CommentIds :
         DeleteComment(s, caller, id, cid)
    \/ DeleteCommentSave(s)

SpecRace == InitRace /\ [][NextRace]_vars

(***************************************************************************)
(* Properties.                                                              *)
(***************************************************************************)
Range(seq) == {seq[i] : i \in 1..Len(seq)}

\* This step starts a request of the route by the caller on post id in slot s.
Starts(s, route, caller, id) ==
  /\ reqs[s].pc \in {"idle", "done"}
  /\ started' = started + 1
  /\ reqs'[s].route = route
  /\ reqs'[s].caller = caller
  /\ reqs'[s].id = id

\* C1: the persisted viewCount of a post has increased (from 0) by exactly the
\* number of GET /:id requests on it that were answered 200, whatever the
\* callers and however the requests overlap.
C1_ViewCountCountsFetches ==
  \A p \in DOMAIN db : db[p].viewCount = ok200[p]

\* C2: the like list of every post holds at most one entry per user.
C2_OneLikePerUser ==
  \A p \in DOMAIN db :
    \A i, j \in 1..Len(db[p].likes) :
      i # j => db[p].likes[i] # db[p].likes[j]

\* Two overlapping toggles of one user (the only two requests ever started)
\* have both answered liked:true.
C2_Witness ==
  /\ started = 2
  /\ \A s \in Slots :
       /\ reqs[s].route = PUT_LIKE /\ reqs[s].pc = "done"
       /\ reqs[s].caller = "u1" /\ reqs[s].id = 1
       /\ reqs[s].resp.status = 200 /\ reqs[s].resp.liked
  /\ db[1].likes = <<"u1">>

\* C3: a like toggle of user U that runs alone on the post right after another
\* toggle of U that ran alone leaves the like list with the users and the
\* length it had before the first, and answers the opposite liked value
\* (liked:false when U had not liked the post before the first).
C3_TogglePairRestores ==
  [][\A s \in Slots :
       (/\ reqs[s].route = PUT_LIKE /\ reqs[s].pc = "save"
        /\ LikePostSave(s)
        /\ Exists(reqs[s].id)
        /\ likeCur[reqs[s].id] # NoLike
        /\ likeCur[reqs[s].id].slot = s
        /\ likePrev[reqs[s].id] # NoLike
        /\ likePrev[reqs[s].id].user = reqs[s].caller)
       => LET id == reqs[s].id
              before == likePrev[id].before
          IN /\ Range(db'[id].likes) = Range(before)
             /\ Len(db'[id].likes) = Len(before)
             /\ reqs'[s].resp.status = 200
             /\ reqs'[s].resp.liked = ~likePrev[id].liked
             /\ reqs'[s].resp.likeCount = Len(before)
             /\ (reqs[s].caller \notin Range(before) => ~reqs'[s].resp.liked)]_vars

\* The second toggle of such a pair (like, then unlike) has been saved on a
\* post another user likes.
C3_Witness ==
  /\ likePrev[1] # NoLike
  /\ likePrev[1].second
  /\ ~likePrev[1].liked
  /\ likePrev[1].user = "u1"
  /\ db[1].likes = <<"u2">>

\* C4: GET /:id on an existing post that is not published puts the request on
\* its way to 200 (with the view counted) for the post's author and answers
\* 404 'Post not found' to every other caller.
C4_DraftVisibleToAuthorOnly ==
  [][\A s \in Slots, caller \in Callers, id \in PostIds :
       (/\ Starts(s, GET_ONE, caller, id) /\ GetPost(s, caller, id)
        /\ Exists(id) /\ db[id].status # "published")
       => IF caller = db[id].author
            THEN reqs'[s].pc = "save" /\ reqs'[s].doc[1].viewCount = db[id].viewCount + 1
            ELSE reqs'[s].pc = "done" /\ reqs'[s].resp = PostNotFound]_vars

\* C5: the author of every post is the identity that issued the POST / which
\* created it.
C5_AuthorIsCreator ==
  \A p \in DOMAIN db : db[p].author = created[p]

C10_CommentPrependedAndReturned ==
  [][\A s \in Slots :
       /\ (/\ reqs[s].route = POST_COMMENT /\ reqs[s].pc = "save"
           /\ AddCommentSave(s) /\ Exists(reqs[s].id))
          => /\ reqs[s].arg.user = reqs[s].caller
             /\ db'[reqs[s].id].comments = <<reqs[s].arg>> \o reqs[s].read[1].comments
       /\ (/\ reqs[s].route = POST_COMMENT /\ reqs[s].pc = "fetch"
           /\ AddCommentFetch(s) /\ reqs'[s].resp.status = 201)
          => reqs'[s].resp.comment = <<reqs[s].arg>>]_vars

\* The listing in slot s, with page >= 1 and limit >= 1, reads its page.
ReadsPage(s) ==
  /\ reqs[s].route \in ListRoutes /\ reqs[s].pc = "find"
  /\ reqs[s].arg.page >= 1 /\ reqs[s].arg.limit >= 1
  /\ ListFind(s)

\* C8 as stated: every listing with page >= 1 and limit >= 1 answers with
\* startIndex + count <= total.
C8_PageWithinTotal ==
  [][\A s \in Slots :
       ReadsPage(s) =>
         /\ reqs'[s].resp.status = 200
         /\ reqs[s].arg.startIndex + reqs'[s].resp.count <= reqs'[s].resp.total]_vars

\* C8 as amended: the listing answers 200 with the total it counted and with
\* count = min(limit, max(0, n - startIndex)) posts, n being the number of
\* posts that match the filter when the page is read.  So startIndex + count
\* <= total when the page starts within the counted posts and no more posts
\* match when the page is read than were counted; a page past the end is
\* empty, and startIndex + count then exceeds total.
C8_PageWithinTotalFromStart ==
  [][\A s \in Slots :
       ReadsPage(s) =>
         LET a     == reqs[s].arg
             n     == Cardinality({p \in DOMAIN db : Matches(db[p], a.query)})
             count == reqs'[s].resp.count
             total == reqs'[s].resp.total
         IN /\ reqs'[s].resp.status = 200
            /\ a.startIndex = (a.page - 1) * a.limit
            /\ total = a.total
            /\ count = Len(reqs'[s].resp.posts)
            /\ count = Min(a.limit, Max(0, n - a.startIndex))
            /\ (a.startIndex <= total /\ n <= total) => a.startIndex + count <= total
            /\ (a.startIndex > total /\ n <= total) =>
                 count = 0 /\ a.startIndex + count > total]_vars

\* The last page was read with nothing changed in between: page 2 of pages of
\* one post, of the two posts counted.
C8_Witness ==
  /\ reqs["r1"].route \in ListRoutes /\ reqs["r1"].pc = "done"
  /\ reqs["r1"].resp.status = 200
  /\ reqs["r1"].resp.total = 2
  /\ reqs["r1"].resp.count = 1
  /\ reqs["r1"].resp.pagination.prev = <<[page |-> 1, limit |-> 1]>>

\* The query strings whose page (limit) is absent, non-numeric or 0.
Defaulted == {Absent, "abc", "0"}

\* C9: a listing counts the posts that match its filter; with page >= 1 and
\* limit >= 1 its pagination has prev, with page - 1, iff page > 1, and next,
\* with page + 1, iff startIndex + limit < total, that is iff counted posts
\* remain after the page.  A page or limit that is absent, non-numeric or 0
\* is taken as 1 or 10, without an error.
C9_PaginationDescriptor ==
  [][\A s \in Slots :
       /\ \A route \in ListRoutes :
            \A caller \in ListCallers(route) :
              (/\ Starts(s, route, caller, 0)
               /\ ~ProtectRejects(route, caller)
               /\ \E q \in ListQueries(route) :
                    /\ reqs'[s].pc = "find" => q = reqs'[s].arg.q
                    /\ ListPosts(s, route, caller, q))
              => /\ reqs'[s].pc = "find"
                 /\ LET q == reqs'[s].arg.q
                        a == reqs'[s].arg
                    IN /\ q.page \in Defaulted => a.page = 1
                       /\ q.limit \in Defaulted => a.limit = 10
                       /\ q.page = "2" => a.page = 2
                       /\ q.limit = "1" => a.limit = 1
                       /\ a.total = Cardinality({p \in DOMAIN db : Matches(db[p], a.query)})
       /\ ReadsPage(s) =>
            LET a  == reqs[s].arg
                pg == reqs'[s].resp.pagination
                after == a.total - (a.startIndex + a.limit)
            IN /\ reqs'[s].resp.status = 200
               /\ pg.prev # <<>> <=> a.page > 1
               /\ pg.prev # <<>> => pg.prev = <<[page |-> a.page - 1, limit |-> a.limit]>>
               /\ pg.next # <<>> <=> after > 0
               /\ pg.next # <<>> <=> a.startIndex + a.limit < reqs'[s].resp.total
               /\ pg.next # <<>> => pg.next = <<[page |-> a.page + 1, limit |-> a.limit]>>]_vars

\* The first page of pages of one post was answered with next and without
\* prev, one of the two posts remaining.
C9_Witness ==
  /\ reqs["r1"].route \in ListRoutes /\ reqs["r1"].pc = "done"
  /\ reqs["r1"].resp.status = 200
  /\ reqs["r1"].resp.total = 2
  /\ reqs["r1"].resp.count = 1
  /\ reqs["r1"].resp.pagination.next = <<[page |-> 2, limit |-> 1]>>
  /\ reqs["r1"].resp.pagination.prev = <<>>

\* The ids of the comments of a list.
CommentIdsOf(comments) == {comments[i].id : i \in 1..Len(comments)}

\* C11: a like toggle and a comment deletion save the document the handler
\* fetched, changed in memory, over whatever is stored, and answer 200.  The
\* stored likes are the fetched ones with the caller's like toggled, so a like
\* another user stored between the fetch and the save is gone; the stored
\* comments are the fetched ones without the comment deleted, so a comment
\* another caller deleted between the fetch and the save is stored again.
C11_LastWriterWins ==
  [][\A s \in Slots :
       /\ (/\ reqs[s].route = PUT_LIKE /\ reqs[s].pc = "save"
           /\ Exists(reqs[s].id)
           /\ LikePostSave(s))
          => LET id     == reqs[s].id
                 before == Range(reqs[s].read[1].likes)
                 after  == Range(db'[id].likes)
             IN /\ reqs'[s].resp.status = 200 /\ reqs'[s].resp.success
                /\ reqs'[s].resp.liked = (reqs[s].caller \notin before)
                /\ after = IF reqs[s].caller \in before
                             THEN before \ {reqs[s].caller}
                             ELSE before \cup {reqs[s].caller}
                /\ Len(db'[id].likes) = Cardinality(after)
       /\ (/\ reqs[s].route = DEL_COMMENT /\ reqs[s].pc = "save"
           /\ Exists(reqs[s].id)
           /\ DeleteCommentSave(s))
          => LET id == reqs[s].id
             IN /\ reqs'[s].resp.status = 200 /\ reqs'[s].resp.success
                /\ CommentIdsOf(db'[id].comments) =
                     CommentIdsOf(reqs[s].read[1].comments) \ {reqs[s].arg}
                /\ db'[id].likes = reqs[s].read[1].likes]_vars

\* Two like toggles of two different users on the post, the only requests
\* started, have both answered 200 with liked:true, and one like is stored.
C11_Witness ==
  /\ started = 2
  /\ \A s \in Slots :
       /\ reqs[s].route = PUT_LIKE /\ reqs[s].pc = "done" /\ reqs[s].id = 1
       /\ reqs[s].resp.status = 200 /\ reqs[s].resp.liked
  /\ reqs["r1"].caller = "u1" /\ reqs["r2"].caller = "u2"
  /\ Len(db[1].likes) = 1

\* Two deletions, by u1 and by u2, each of the caller's own comment, the only
\* requests started, have both answered 200, and one of the two comments is
\* stored.
C11_WitnessComments ==
  /\ started = 2
  /\ \A s \in Slots :
       /\ reqs[s].route = DEL_COMMENT /\ reqs[s].pc = "done" /\ reqs[s].id = 1
       /\ reqs[s].resp.status = 200
  /\ reqs["r1"].caller = "u1" /\ reqs["r2"].caller = "u2"
  /\ Len(db[1].comments) = 1

=============================================================================
